---- MODULE Spec2Model ----
(***************************************************************************)
(* Incremental loader of speedtest result files with a Parquet cache       *)
(* (dashboard/app/data_loader.py): file name codec, record parser,         *)
(* parallel file loader, cache store and the load_all_data orchestrator.   *)
(***************************************************************************)
EXTENDS Integers, Sequences, FiniteSets, TLC

(***************************************************************************)
(* Bounds of the model.                                                    *)
(***************************************************************************)
\* number of load_all_data invocations explored
MaxRuns == 3
\* number of changes the environment makes to the data directory or cache
MaxEnvOps == 2
\* number of faults: a cache write that fails, a crash, a damaged cache file
MaxFaults == 1

(***************************************************************************)
(* File names, as sequences of characters.                                 *)
(***************************************************************************)
Prefix == <<"s","p","e","e","d","t","e","s","t","-">>
Suffix == <<".","j","s","o","n">>

\* speedtest-2024-01-15T10-30-00-000Z.json
NameA == Prefix \o <<"2","0","2","4","-","0","1","-","1","5","T",
                     "1","0","-","3","0","-","0","0","-","0","0","0","Z">> \o Suffix
\* speedtest-2024-01-15T10-40-00-000Z.json
NameB == Prefix \o <<"2","0","2","4","-","0","1","-","1","5","T",
                     "1","0","-","4","0","-","0","0","-","0","0","0","Z">> \o Suffix
\* speedtest-2024-02-30T10-30-00-000Z.json (matches the pattern, no such date)
NameBadDate == Prefix \o <<"2","0","2","4","-","0","2","-","3","0","T",
                     "1","0","-","3","0","-","0","0","-","0","0","0","Z">> \o Suffix
\* speedtest-x.json (found by the glob, does not match the pattern)
NameNoTs == Prefix \o <<"x">> \o Suffix
\* notes.json (not found by the glob)
NameOther == <<"n","o","t","e","s">> \o Suffix

\* the names files of the data directory can take
Names == {NameA, NameB}

(***************************************************************************)
(* parse_timestamp_from_filename                                           *)
(***************************************************************************)
DigitVal == ("0" :> 0) @@ ("1" :> 1) @@ ("2" :> 2) @@ ("3" :> 3) @@ ("4" :> 4) @@
            ("5" :> 5) @@ ("6" :> 6) @@ ("7" :> 7) @@ ("8" :> 8) @@ ("9" :> 9)

\* the character class \d is written "\\d"; every other item is a literal
D == "\\d"
TimestampPattern ==
    Prefix \o <<D, D, D, D, "-", D, D, "-", D, D, "T",
                D, D, "-", D, D, "-", D, D, "-", D, D, D, "Z">> \o Suffix

\* re.match: the pattern is matched at the start of the string and the
\* string may go on after it
ReMatch(pattern, s) ==
    /\ Len(s) >= Len(pattern)
    /\ \A i \in 1..Len(pattern) :
          IF pattern[i] = D THEN s[i] \in DOMAIN DigitVal ELSE s[i] = pattern[i]

\* int() of the digits s[from..to]
RECURSIVE Num(_, _, _)
Num(s, from, to) ==
    IF from > to THEN 0 ELSE Num(s, from, to - 1) * 10 + DigitVal[s[to]]

IsLeap(y) == (y % 4 = 0) /\ ((y % 100 # 0) \/ (y % 400 = 0))

DaysInMonth(y, m) ==
    IF m = 2 THEN (IF IsLeap(y) THEN 29 ELSE 28)
    ELSE IF m \in {4, 6, 9, 11} THEN 30 ELSE 31

RECURSIVE DaysBeforeMonth(_, _)
DaysBeforeMonth(y, m) ==
    IF m <= 1 THEN 0 ELSE DaysBeforeMonth(y, m - 1) + DaysInMonth(y, m - 1)

\* proleptic Gregorian ordinal of a date, 0001-01-01 being day 1
Ordinal(y, m, d) ==
    (y - 1) * 365 + ((y - 1) \div 4) - ((y - 1) \div 100) + ((y - 1) \div 400)
      + DaysBeforeMonth(y, m) + d

\* "no match" of the codec (Python's None in place of a datetime)
None == [day |-> 0, ms |-> 0]

\* datetime.fromisoformat of the rebuilt ISO string: ValueError (None) for a
\* date or time that does not exist, else the UTC instant as the day's
\* ordinal and the millisecond of the day
FromIsoFormat(y, mo, d, h, mi, s, ms) ==
    IF /\ y >= 1
       /\ mo \in 1..12
       /\ d >= 1 /\ d <= DaysInMonth(y, mo)
       /\ h <= 23 /\ mi <= 59 /\ s <= 59
    THEN [day |-> Ordinal(y, mo, d), ms |-> ((h * 60 + mi) * 60 + s) * 1000 + ms]
    ELSE None

parse_timestamp_from_filename(filename) ==
    IF ~ReMatch(TimestampPattern, filename) THEN None
    ELSE FromIsoFormat(Num(filename, 11, 14), Num(filename, 16, 17),
                       Num(filename, 19, 20), Num(filename, 22, 23),
                       Num(filename, 25, 26), Num(filename, 28, 29),
                       Num(filename, 31, 33))

\* ordering of instants
TsLeq(a, b) == a.day < b.day \/ (a.day = b.day /\ a.ms <= b.ms)

\* Path.glob("speedtest-*.json")
SubSeqEq(s, from, t) ==
    /\ from >= 1
    /\ from + Len(t) - 1 <= Len(s)
    /\ \A i \in 1..Len(t) : s[from + i - 1] = t[i]

GlobMatch(name) ==
    /\ Len(name) >= Len(Prefix) + Len(Suffix)
    /\ SubSeqEq(name, 1, Prefix)
    /\ SubSeqEq(name, Len(name) - Len(Suffix) + 1, Suffix)

(***************************************************************************)
(* JSON values and the content of a result file.                           *)
(***************************************************************************)
\* a key the JSON object does not have
Absent == [t |-> "absent", v |-> 0]
JNull == [t |-> "null", v |-> 0]
JFalse == [t |-> "bool", v |-> 0]
JTrue == [t |-> "bool", v |-> 1]
JNum(n) == [t |-> "num", v |-> n]
JStr(k) == [t |-> "str", v |-> k]

\* Truthy without the test of line 141: every file counts as successful
AlwaysTruthy(j) == TRUE

\* bool() of the value data.get("success", False)
Truthy(j) ==
    CASE j.t = "absent" -> FALSE
      [] j.t = "null" -> FALSE
      [] j.t = "bool" -> j.v = 1
      [] j.t = "num" -> j.v # 0
      [] j.t = "str" -> j.v # 0

\* keys of METRICS; download and upload are divided by 1_000_000, the others
\* are kept as they are
MetricKeys == {"download", "upload", "latency", "jitter", "downLoadedLatency",
               "downLoadedJitter", "upLoadedLatency", "upLoadedJitter"}
ScaledKeys == {"download", "upload"}
Million == 1000000

\* a float, held in millionths so that x / 1_000_000 is exact
Float(micro) == [t |-> "float", v |-> micro]
\* a missing cell of a DataFrame column, and None of sessionID / endpoint
NaN == [t |-> "nan", v |-> 0]

\* METRICS[key]["convert"](x) for a JSON number x
Convert(key, x) ==
    IF key \in ScaledKeys THEN Float(x.v)
    ELSE IF x.t = "num" THEN Float(x.v * Million) ELSE x

\* A file: whether open() succeeds, whether json.load parses the text, whether
\* the top level is an object, and the object's keys.  result is "absent"
\* (no such key), "null" (a value that is no container) or "dict";
\* metrics are the keys of the result dict.
File(readable, wellFormed, isObject, success, result, metrics, sessionID) ==
    [readable |-> readable, wellFormed |-> wellFormed, isObject |-> isObject,
     success |-> success, result |-> result, metrics |-> metrics,
     sessionID |-> sessionID, endpoint |-> Absent]

NoMetrics == [k \in {} |-> JNull]
MetricsV1 == [k \in {"download", "latency"} |->
                 IF k = "download" THEN JNum(2500000) ELSE JNum(5)]
MetricsV2 == [k \in {"download"} |-> JNum(4000000)]
MetricsStr == [k \in {"download"} |-> JStr(1)]

\* a successful measurement, and another one with other values and no latency
GoodV1 == File(TRUE, TRUE, TRUE, JTrue, "dict", MetricsV1, JStr(1))
GoodV2 == File(TRUE, TRUE, TRUE, JTrue, "dict", MetricsV2, Absent)
\* success false with a well-formed result section
FailedRun == File(TRUE, TRUE, TRUE, JFalse, "dict", MetricsV1, JStr(1))
\* no success key
NoSuccess == File(TRUE, TRUE, TRUE, Absent, "dict", MetricsV1, JStr(1))
\* success true, no result key
NoResult == File(TRUE, TRUE, TRUE, JTrue, "absent", NoMetrics, JStr(1))
\* "result": null
NullResult == File(TRUE, TRUE, TRUE, JTrue, "null", NoMetrics, JStr(1))
\* "download": "fast"
WrongType == File(TRUE, TRUE, TRUE, JTrue, "dict", MetricsStr, JStr(1))
\* valid JSON whose top level is a list
TopLevelList == File(TRUE, TRUE, FALSE, Absent, "absent", NoMetrics, Absent)
\* text that is not JSON
NotJson == File(TRUE, FALSE, FALSE, Absent, "absent", NoMetrics, Absent)
\* open() fails
Unreadable == File(FALSE, FALSE, FALSE, Absent, "absent", NoMetrics, Absent)

AllContents == {GoodV1, GoodV2, FailedRun, NoSuccess, NoResult, NullResult,
                WrongType, TopLevelList, NotJson, Unreadable}

(***************************************************************************)
(* load_single_file                                                        *)
(***************************************************************************)
\* what a call does: it returns a record, returns None, or raises
Parsed(rec) == [kind |-> "record", rec |-> rec, why |-> "ok"]
Skipped(why) == [kind |-> "none", rec |-> [c \in {} |-> NaN], why |-> why]
Raised(why) == [kind |-> "raise", rec |-> [c \in {} |-> NaN], why |-> why]

OrNone(j) == IF j.t = "absent" THEN NaN ELSE j

\* the record built at lines 156-165
BuildRecord(name, data, timestamp) ==
    [c \in {"timestamp", "source_file", "sessionID", "endpoint"}
             \cup (DOMAIN data.metrics \cap MetricKeys) |->
        CASE c = "timestamp" -> timestamp
          [] c = "source_file" -> name
          [] c = "sessionID" -> OrNone(data.sessionID)
          [] c = "endpoint" -> OrNone(data.endpoint)
          [] OTHER -> Convert(c, data.metrics[c])]

load_single_file(name, data) ==
    IF ~data.readable THEN Skipped("OSError")
    ELSE IF ~data.wellFormed THEN Skipped("JSONDecodeError")
    ELSE IF ~data.isObject THEN Raised("AttributeError")
    ELSE IF ~Truthy(data.success) THEN Skipped("failed")
    ELSE IF data.result = "absent" THEN Skipped("no result")
    ELSE IF parse_timestamp_from_filename(name) = None THEN Skipped("filename")
    ELSE IF data.result # "dict" THEN Skipped("TypeError")
    ELSE IF \E k \in DOMAIN data.metrics \cap ScaledKeys :
               data.metrics[k].t \notin {"num", "bool"}
         THEN Skipped("TypeError")
    ELSE Parsed(BuildRecord(name, data, parse_timestamp_from_filename(name)))

(***************************************************************************)
(* DataFrames: the columns, the rows in order and the index labels.        *)
(***************************************************************************)
RangeIndex(n) == [i \in 1..n |-> i - 1]

\* pd.DataFrame()
EmptyDF == [cols |-> {}, rows |-> <<>>, index |-> <<>>]

\* a row widened to the columns cols, NaN where it has no value
Widen(row, cols) == [c \in cols |-> IF c \in DOMAIN row THEN row[c] ELSE NaN]

\* pd.DataFrame(records)
DataFrameOf(records) ==
    LET cols == UNION {DOMAIN records[i] : i \in 1..Len(records)}
    IN [cols |-> cols,
        rows |-> [i \in 1..Len(records) |-> Widen(records[i], cols)],
        index |-> RangeIndex(Len(records))]

\* pd.concat([a, b], ignore_index=True)
Concat(a, b) ==
    LET cols == a.cols \cup b.cols
        rows == a.rows \o b.rows
    IN [cols |-> cols,
        rows |-> [i \in 1..Len(rows) |-> Widen(rows[i], cols)],
        index |-> RangeIndex(Len(rows))]

\* df.empty
IsEmpty(df) == df.cols = {} \/ Len(df.rows) = 0

\* the positions 1..n of rows in ascending order of timestamp, rows of equal
\* timestamp in their order in rows
RECURSIVE SortedPositions(_, _)
SortedPositions(rows, n) ==
    IF n = 0 THEN <<>>
    ELSE LET before == SortedPositions(rows, n - 1)
             k == Cardinality({j \in 1..(n - 1) :
                                  TsLeq(rows[j]["timestamp"], rows[n]["timestamp"])})
         IN SubSeq(before, 1, k) \o <<n>> \o SubSeq(before, k + 1, n - 1)

\* df.sort_values("timestamp", ascending=True)
SortValues(df) ==
    LET perm == SortedPositions(df.rows, Len(df.rows))
    IN [cols |-> df.cols,
        rows |-> [i \in 1..Len(perm) |-> df.rows[perm[i]]],
        index |-> [i \in 1..Len(perm) |-> df.index[perm[i]]]]

\* df.drop(columns=["source_file"])
DropSourceFile(df) ==
    LET cols == df.cols \ {"source_file"}
    IN [cols |-> cols,
        rows |-> [i \in 1..Len(df.rows) |-> [c \in cols |-> df.rows[i][c]]],
        index |-> df.index]

\* set(df["source_file"].unique())
SourceFiles(df) == {df.rows[i]["source_file"] : i \in 1..Len(df.rows)}

(***************************************************************************)
(* The cache file and _load_cache / _save_cache.                           *)
(***************************************************************************)
\* the file at the cache path: "absent", "garbage" (bytes that are no Parquet
\* file), "partial" (a write that was begun and not finished) or "parquet"
NoFile == [kind |-> "absent", cols |-> {}, rows |-> <<>>]
Garbage == [kind |-> "garbage", cols |-> {}, rows |-> <<>>]
Partial == [kind |-> "partial", cols |-> {}, rows |-> <<>>]

\* df.to_parquet(cache_path, index=False): the index is not written
ToParquet(df) == [kind |-> "parquet", cols |-> df.cols, rows |-> df.rows]

\* pd.read_parquet of a Parquet file
ReadParquet(file) ==
    [cols |-> file.cols, rows |-> file.rows, index |-> RangeIndex(Len(file.rows))]

\* Optional[pd.DataFrame]
NoDF == [some |-> FALSE, df |-> EmptyDF]
SomeDF(df) == [some |-> TRUE, df |-> df]

\* _load_cache that finds nothing whatever is at the cache path
CacheMiss(file) == NoDF

_load_cache(file) ==
    IF file.kind = "parquet" THEN SomeDF(ReadParquet(file)) ELSE NoDF

(***************************************************************************)
(* State.                                                                  *)
(***************************************************************************)
\* the processes that invoke load_all_data
Procs == {1}

\* the contents the environment gives to files of the data directory
DiskContents == {GoodV1, GoodV2, FailedRun, TopLevelList}

VARIABLES
    dirExists,   \* Path(DATA_DIR).exists()
    disk,        \* the data directory: name -> whether there is such a file,
                 \* and its content
    cache,       \* the file at the cache path
    pc,          \* where each invocation of load_all_data is
    files,       \* all_json_files (the names)
    seen,        \* what _load_cache found at the cache path
    cached,      \* cached_df
    pending,     \* the submitted files whose future has not completed
    records,     \* records / new_records of _load_json_files_parallel
    df,          \* df of load_all_data at lines 330-339
    calls,       \* the names load_single_file was called with, this invocation
    okNames,     \* the names load_single_file ever returned a record for
    since,       \* what the environment did since the last invocation ended
    nRuns,       \* invocations begun
    nEnv,        \* changes made by the environment
    nFaults,     \* faults so far
    last,        \* how the last invocation that ended did end
    arg,         \* the argument of a call of one function on its own
    ret          \* what that call returned

vars == <<dirExists, disk, cache, pc, files, seen, cached, pending, records, df,
          calls, okNames, since, nRuns, nEnv, nFaults, last, arg, ret>>

\* the locals of the invocations
locals == <<pc, files, seen, cached, pending, records, df, calls>>
\* the data directory and the cache path
world == <<dirExists, disk, cache>>
\* the counters of the environment
counters == <<since, nEnv, nFaults>>
\* a call of load_single_file, parse_timestamp_from_filename or
\* aggregate_to_intervals on its own; load_all_data does not touch it
pure == <<arg, ret>>
\* no such call, or a call that has not returned yet
NoCall == [kind |-> "nocall"]

NoSuchFile == [exists |-> FALSE, content |-> Unreadable]
FileWith(c) == [exists |-> TRUE, content |-> c]
NoFiles == [n \in Names |-> NoSuchFile]

\* the data directory when the dashboard starts
InitContents == {GoodV1}
InitDisks == [Names -> {NoSuchFile} \cup {FileWith(c) : c \in InitContents}]

\* added: the names of the files created; dirty: anything else was changed (a
\* file overwritten or deleted, the directory removed or created, the cache
\* file damaged)
Nothing == [added |-> {}, dirty |-> FALSE]

(***************************************************************************)
(* How an invocation ends.                                                 *)
(***************************************************************************)
\* the dataset of a DataFrame: its columns and its rows in order
Dataset(d) == [cols |-> d.cols, rows |-> d.rows]
NoDataset == [cols |-> {}, rows |-> <<>>]

\* kind: "returned", "raised" or "crashed" ("none" before the first one);
\* path: the return statement taken, or the exception; out: the dataset
\* returned; wrote: _save_cache was called; saved: it succeeded; calls: the
\* names load_single_file was called with; files: the listing; seen: what
\* _load_cache found; cachedRows: the rows of cached_df; before: what the
\* environment did between the invocation before and this one
Ending(p, kind, path, out, wrote, saved) ==
    [kind |-> kind, path |-> path, out |-> Dataset(out), wrote |-> wrote,
     saved |-> saved, calls |-> calls[p], files |-> files[p], seen |-> seen[p],
     cachedRows |-> cached[p].df.rows, before |-> since]

EarlyReturn(path) ==
    [kind |-> "returned", path |-> path, out |-> NoDataset, wrote |-> FALSE,
     saved |-> FALSE, calls |-> {}, files |-> {}, seen |-> "unread",
     cachedRows |-> <<>>, before |-> since]

NoRun == [kind |-> "none", path |-> "none", out |-> NoDataset, wrote |-> FALSE,
          saved |-> FALSE, calls |-> {}, files |-> {}, seen |-> "unread",
          cachedRows |-> <<>>, before |-> Nothing]

Init ==
    /\ dirExists = TRUE
    /\ disk \in InitDisks
    /\ cache = NoFile
    /\ pc = [p \in Procs |-> "idle"]
    /\ files = [p \in Procs |-> {}]
    /\ seen = [p \in Procs |-> "unread"]
    /\ cached = [p \in Procs |-> NoDF]
    /\ pending = [p \in Procs |-> {}]
    /\ records = [p \in Procs |-> <<>>]
    /\ df = [p \in Procs |-> EmptyDF]
    /\ calls = [p \in Procs |-> {}]
    /\ okNames = {}
    /\ since = Nothing
    /\ nRuns = 0
    /\ nEnv = 0
    /\ nFaults = 0
    /\ last = NoRun
    /\ arg = NoCall
    /\ ret = NoCall

\* the invocation of p ends and its locals are gone
End(p, ending) ==
    /\ last' = ending
    /\ since' = Nothing
    /\ pc' = [pc EXCEPT ![p] = "idle"]
    /\ files' = [files EXCEPT ![p] = {}]
    /\ seen' = [seen EXCEPT ![p] = "unread"]
    /\ cached' = [cached EXCEPT ![p] = NoDF]
    /\ pending' = [pending EXCEPT ![p] = {}]
    /\ records' = [records EXCEPT ![p] = <<>>]
    /\ df' = [df EXCEPT ![p] = EmptyDF]
    /\ calls' = [calls EXCEPT ![p] = {}]

(***************************************************************************)
(* load_all_data                                                           *)
(***************************************************************************)
\* data_path.glob("speedtest-*.json")
Glob == {n \in Names : disk[n].exists /\ GlobMatch(n)}

\* load_all_data is called; the caller serializes the invocations
Called(p) ==
    /\ \A q \in Procs : pc[q] = "idle"
    /\ nRuns < MaxRuns
    /\ nRuns' = nRuns + 1

\* lines 263-266: the data directory does not exist
BeginNoDir(p) ==
    /\ Called(p)
    /\ ~dirExists
    /\ last' = EarlyReturn("nodir")
    /\ since' = Nothing
    /\ UNCHANGED <<world, locals, okNames, nEnv, nFaults>>
    /\ UNCHANGED pure

\* lines 263-274: the directory holds no matching file
BeginNoFiles(p) ==
    /\ Called(p)
    /\ dirExists /\ Glob = {}
    /\ last' = EarlyReturn("nofiles")
    /\ since' = Nothing
    /\ UNCHANGED <<world, locals, okNames, nEnv, nFaults>>
    /\ UNCHANGED pure

\* lines 263-276: the directory holds matching files
Begin(p) ==
    /\ Called(p)
    /\ dirExists /\ Glob # {}
    /\ files' = [files EXCEPT ![p] = Glob]
    /\ pc' = [pc EXCEPT ![p] = "load_cache"]
    /\ UNCHANGED <<world, seen, cached, pending, records, df, calls, okNames,
                   counters, last>>
    /\ UNCHANGED pure

\* what is at the cache path, as _load_cache and line 283 tell it apart
Kind(file) ==
    IF file.kind = "parquet" /\ "source_file" \notin file.cols
    THEN "foreign" ELSE file.kind

\* NewFiles without the test of line 285: every listed file is new
NewFilesAll(all, cachedDf) == all

\* new_files of lines 284-286
NewFiles(all, cachedDf) == all \ SourceFiles(cachedDf)

\* FastPathResult without the drop of line 294
FastPathKeepsSourceFile(cachedDf) == SortValues(cachedDf)

\* the DataFrame the fast path returns, lines 294-296
FastPathResult(cachedDf) == SortValues(DropSourceFile(cachedDf))

\* lines 279-283 with a cache that has rows and no source_file column:
\* cached_df["source_file"] raises KeyError
ReadCacheKeyError(p) ==
    /\ pc[p] = "load_cache"
    /\ LET c == _load_cache(cache)
       IN /\ c.some /\ ~IsEmpty(c.df)
          /\ "source_file" \notin c.df.cols
          /\ End(p, [Ending(p, "raised", "KeyError", EmptyDF, FALSE, FALSE)
                        EXCEPT !.seen = Kind(cache)])
    /\ UNCHANGED <<world, okNames, nRuns, nEnv, nFaults>>
    /\ UNCHANGED pure

\* lines 279-296: the cache names every file, the cached rows are returned
ReadCacheFast(p) ==
    /\ pc[p] = "load_cache"
    /\ LET c == _load_cache(cache)
       IN /\ c.some /\ ~IsEmpty(c.df)
          /\ "source_file" \in c.df.cols
          /\ NewFiles(files[p], c.df) = {}
          /\ End(p, [Ending(p, "returned", "fast", FastPathResult(c.df),
                            FALSE, FALSE)
                        EXCEPT !.seen = Kind(cache), !.cachedRows = c.df.rows])
    /\ UNCHANGED <<world, okNames, nRuns, nEnv, nFaults>>
    /\ UNCHANGED pure

\* lines 279-305: the new files are submitted to the pool
ReadCacheMerge(p) ==
    /\ pc[p] = "load_cache"
    /\ LET c == _load_cache(cache)
       IN /\ c.some /\ ~IsEmpty(c.df)
          /\ "source_file" \in c.df.cols
          /\ NewFiles(files[p], c.df) # {}
          /\ cached' = [cached EXCEPT ![p] = c]
          /\ pending' = [pending EXCEPT ![p] = NewFiles(files[p], c.df)]
          /\ calls' = [calls EXCEPT ![p] = NewFiles(files[p], c.df)]
    /\ seen' = [seen EXCEPT ![p] = Kind(cache)]
    /\ pc' = [pc EXCEPT ![p] = "parse"]
    /\ UNCHANGED <<world, files, records, df, okNames, counters, nRuns, last>>
    /\ UNCHANGED pure

\* lines 279-281, 317-321: no usable cache, every file is submitted
ReadCacheCold(p) ==
    /\ pc[p] = "load_cache"
    /\ LET c == _load_cache(cache)
       IN ~c.some \/ IsEmpty(c.df)
    /\ cached' = [cached EXCEPT ![p] = NoDF]
    /\ pending' = [pending EXCEPT ![p] = files[p]]
    /\ calls' = [calls EXCEPT ![p] = files[p]]
    /\ seen' = [seen EXCEPT ![p] = Kind(cache)]
    /\ pc' = [pc EXCEPT ![p] = "parse"]
    /\ UNCHANGED <<world, files, records, df, okNames, counters, nRuns, last>>
    /\ UNCHANGED pure

\* what open() finds for a name of the listing
ContentOf(n) ==
    IF dirExists /\ disk[n].exists THEN disk[n].content ELSE Unreadable

\* _load_json_files_parallel, lines 195-200: the future of file n completes,
\* in any order, and its result is taken
FutureDone(p, n) ==
    /\ pc[p] = "parse"
    /\ n \in pending[p]
    /\ load_single_file(n, ContentOf(n)).kind # "raise"
    /\ LET r == load_single_file(n, ContentOf(n))
       IN /\ records' = [records EXCEPT ![p] =
                            IF r.kind = "record" THEN Append(@, r.rec) ELSE @]
          /\ okNames' = IF r.kind = "record" THEN okNames \cup {n} ELSE okNames
    /\ pending' = [pending EXCEPT ![p] = @ \ {n}]
    /\ UNCHANGED <<world, pc, files, seen, cached, df, calls, counters, nRuns,
                   last>>
    /\ UNCHANGED pure

\* line 196: future.result() re-raises what load_single_file raised, and
\* nothing between there and the caller of load_all_data catches it
FutureRaises(p, n) ==
    /\ pc[p] = "parse"
    /\ n \in pending[p]
    /\ load_single_file(n, ContentOf(n)).kind = "raise"
    /\ End(p, Ending(p, "raised", load_single_file(n, ContentOf(n)).why,
                     EmptyDF, FALSE, FALSE))
    /\ UNCHANGED <<world, okNames, nRuns, nEnv, nFaults>>
    /\ UNCHANGED pure

\* ColdEmpty with a _save_cache of the empty DataFrame before the return of
\* line 325
ColdEmptySaves(p) ==
    /\ pc[p] = "parse" /\ pending[p] = {}
    /\ ~cached[p].some /\ records[p] = <<>>
    /\ cache' = ToParquet(EmptyDF)
    /\ End(p, Ending(p, "returned", "coldempty", EmptyDF, FALSE, FALSE))
    /\ UNCHANGED <<dirExists, disk, okNames, nRuns, nEnv, nFaults>>
    /\ UNCHANGED pure

\* lines 323-325: a cold start that parsed no record
ColdEmpty(p) ==
    /\ pc[p] = "parse" /\ pending[p] = {}
    /\ ~cached[p].some /\ records[p] = <<>>
    /\ End(p, Ending(p, "returned", "coldempty", EmptyDF, FALSE, FALSE))
    /\ UNCHANGED <<world, okNames, nRuns, nEnv, nFaults>>
    /\ UNCHANGED pure

\* Merged without the concat of line 309: the new records replace the cache
MergedNewOnly(cachedDf, recs) ==
    IF ~cachedDf.some \/ recs # <<>> THEN DataFrameOf(recs) ELSE cachedDf.df

\* df of lines 307-316 and 327
Merged(cachedDf, recs) ==
    IF ~cachedDf.some THEN DataFrameOf(recs)
    ELSE IF recs # <<>> THEN Concat(cachedDf.df, DataFrameOf(recs))
    ELSE cachedDf.df

\* Sorted without the sort of line 330
Unsorted(d) == d

\* line 330
Sorted(d) == SortValues(d)

\* lines 307-330: the records are merged with the cached rows and sorted
Collect(p) ==
    /\ pc[p] = "parse" /\ pending[p] = {}
    /\ cached[p].some \/ records[p] # <<>>
    /\ df' = [df EXCEPT ![p] = Sorted(Merged(cached[p], records[p]))]
    /\ pc' = [pc EXCEPT ![p] = "save"]
    /\ UNCHANGED <<world, files, seen, cached, pending, records, calls, okNames,
                   counters, nRuns, last>>
    /\ UNCHANGED pure

\* line 339
Outward(d) == DropSourceFile(d)

\* the file _save_cache writes, line 238
Snapshot(d) == ToParquet(d)

\* a cache write fails, or the process dies
Fault == nFaults < MaxFaults /\ nFaults' = nFaults + 1

\* line 238: to_parquet opens the cache path for writing, which empties it
SaveOpen(p) ==
    /\ pc[p] = "save"
    /\ cache' = Partial
    /\ pc' = [pc EXCEPT ![p] = "writing"]
    /\ UNCHANGED <<dirExists, disk, files, seen, cached, pending, records, df,
                   calls, okNames, counters, nRuns, last>>
    /\ UNCHANGED pure

\* lines 238, 247-248, 339: to_parquet raises before it opens the file
SaveRefused(p) ==
    /\ pc[p] = "save"
    /\ Fault
    /\ End(p, Ending(p, "returned", "saved", Outward(df[p]), TRUE, FALSE))
    /\ UNCHANGED <<world, okNames, nRuns, nEnv>>
    /\ UNCHANGED pure

\* lines 238-246, 339: the write completes
SaveDone(p) ==
    /\ pc[p] = "writing"
    /\ cache' = Snapshot(df[p])
    /\ End(p, Ending(p, "returned", "saved", Outward(df[p]), TRUE, TRUE))
    /\ UNCHANGED <<dirExists, disk, okNames, nRuns, nEnv, nFaults>>
    /\ UNCHANGED pure

\* lines 238, 247-248, 339: to_parquet raises while it writes
SaveAborted(p) ==
    /\ pc[p] = "writing"
    /\ Fault
    /\ End(p, Ending(p, "returned", "saved", Outward(df[p]), TRUE, FALSE))
    /\ UNCHANGED <<world, okNames, nRuns, nEnv>>
    /\ UNCHANGED pure

\* the process dies while to_parquet writes
Crash(p) ==
    /\ pc[p] = "writing"
    /\ Fault
    /\ End(p, Ending(p, "crashed", "crashed", EmptyDF, TRUE, FALSE))
    /\ UNCHANGED <<world, okNames, nRuns, nEnv>>
    /\ UNCHANGED pure

(***************************************************************************)
(* The environment: the producer of the result files, and whatever damages *)
(* the cache file.  It acts between invocations.                           *)
(***************************************************************************)
EnvStep ==
    /\ \A p \in Procs : pc[p] = "idle"
    /\ nEnv < MaxEnvOps
    /\ nEnv' = nEnv + 1
    /\ UNCHANGED <<locals, okNames, nRuns, last>>

\* a file is created, or overwritten in place
WriteFile(n, c) ==
    /\ EnvStep
    /\ dirExists
    /\ disk[n] # FileWith(c)
    /\ disk' = [disk EXCEPT ![n] = FileWith(c)]
    /\ since' = IF disk[n].exists THEN [since EXCEPT !.dirty = TRUE]
                ELSE [since EXCEPT !.added = @ \cup {n}]
    /\ UNCHANGED <<dirExists, cache, nFaults>>
    /\ UNCHANGED pure

DeleteFile(n) ==
    /\ EnvStep
    /\ disk[n].exists
    /\ disk' = [disk EXCEPT ![n] = NoSuchFile]
    /\ since' = [since EXCEPT !.dirty = TRUE]
    /\ UNCHANGED <<dirExists, cache, nFaults>>
    /\ UNCHANGED pure

RemoveDir ==
    /\ EnvStep
    /\ dirExists
    /\ dirExists' = FALSE
    /\ disk' = NoFiles
    /\ since' = [since EXCEPT !.dirty = TRUE]
    /\ UNCHANGED <<cache, nFaults>>
    /\ UNCHANGED pure

CreateDir ==
    /\ EnvStep
    /\ ~dirExists
    /\ dirExists' = TRUE
    /\ since' = [since EXCEPT !.dirty = TRUE]
    /\ UNCHANGED <<disk, cache, nFaults>>
    /\ UNCHANGED pure

\* the cache file is truncated or overwritten with other bytes
CorruptCache ==
    /\ EnvStep
    /\ Fault
    /\ cache.kind = "parquet"
    /\ cache' = Garbage
    /\ since' = [since EXCEPT !.dirty = TRUE]
    /\ UNCHANGED <<dirExists, disk>>
    /\ UNCHANGED pure

\* the cache path holds a readable Parquet file without the source_file column
ForeignCache ==
    /\ EnvStep
    /\ Fault
    /\ cache.kind = "parquet" /\ "source_file" \in cache.cols
    /\ cache' = ToParquet(DropSourceFile(ReadParquet(cache)))
    /\ since' = [since EXCEPT !.dirty = TRUE]
    /\ UNCHANGED <<dirExists, disk>>
    /\ UNCHANGED pure

Env ==
    \/ \E n \in Names, c \in DiskContents : WriteFile(n, c)
    \/ \E n \in Names : DeleteFile(n)
    \/ RemoveDir
    \/ CreateDir
    \/ CorruptCache
    \/ ForeignCache

Next ==
    \/ \E p \in Procs : BeginNoDir(p)
    \/ \E p \in Procs : BeginNoFiles(p)
    \/ \E p \in Procs : Begin(p)
    \/ \E p \in Procs : ReadCacheKeyError(p)
    \/ \E p \in Procs : ReadCacheFast(p)
    \/ \E p \in Procs : ReadCacheMerge(p)
    \/ \E p \in Procs : ReadCacheCold(p)
    \/ \E p \in Procs : \E n \in Names : FutureDone(p, n)
    \/ \E p \in Procs : \E n \in Names : FutureRaises(p, n)
    \/ \E p \in Procs : ColdEmpty(p)
    \/ \E p \in Procs : Collect(p)
    \/ \E p \in Procs : SaveOpen(p)
    \/ \E p \in Procs : SaveRefused(p)
    \/ \E p \in Procs : SaveDone(p)
    \/ \E p \in Procs : SaveAborted(p)
    \/ \E p \in Procs : Crash(p)
    \/ Env

Spec == Init /\ [][Next]_vars

(***************************************************************************)
(* Invocations that the caller does not serialize: two threads call        *)
(* load_all_data against the same directory and the same cache path, and   *)
(* the producer writes result files while they run.                        *)
(***************************************************************************)
Workers == {1, 2}
\* calls of load_all_data by the two threads together
MaxCalls == 2
\* files the producer writes or deletes meanwhile
MaxFileOps == 1

InitConcurrent ==
    /\ dirExists = TRUE
    /\ disk \in InitDisks
    /\ cache = NoFile
    /\ pc = [p \in Workers |-> "idle"]
    /\ files = [p \in Workers |-> {}]
    /\ seen = [p \in Workers |-> "unread"]
    /\ cached = [p \in Workers |-> NoDF]
    /\ pending = [p \in Workers |-> {}]
    /\ records = [p \in Workers |-> <<>>]
    /\ df = [p \in Workers |-> EmptyDF]
    /\ calls = [p \in Workers |-> {}]
    /\ okNames = {}
    /\ since = Nothing
    /\ nRuns = 0
    /\ nEnv = 0
    /\ nFaults = 0
    /\ last = NoRun
    /\ arg = NoCall
    /\ ret = NoCall

\* load_all_data is called by a thread that is not in it, whatever the other
\* thread is doing
Enter(p) ==
    /\ pc[p] = "idle"
    /\ nRuns < MaxCalls
    /\ nRuns' = nRuns + 1

\* lines 263-274: the directory holds no matching file
EnterNoFiles(p) ==
    /\ Enter(p)
    /\ dirExists /\ Glob = {}
    /\ last' = EarlyReturn("nofiles")
    /\ since' = Nothing
    /\ UNCHANGED <<world, locals, okNames, nEnv, nFaults, pure>>

\* lines 263-276: the directory holds matching files
EnterListing(p) ==
    /\ Enter(p)
    /\ dirExists /\ Glob # {}
    /\ files' = [files EXCEPT ![p] = Glob]
    /\ pc' = [pc EXCEPT ![p] = "load_cache"]
    /\ UNCHANGED <<world, seen, cached, pending, records, df, calls, okNames,
                   counters, last, pure>>

\* the producer writes a new result file, at any time
FileAppears(n) ==
    /\ nEnv < MaxFileOps
    /\ nEnv' = nEnv + 1
    /\ dirExists /\ ~disk[n].exists
    /\ disk' = [disk EXCEPT ![n] = FileWith(GoodV1)]
    /\ since' = [since EXCEPT !.added = @ \cup {n}]
    /\ UNCHANGED <<dirExists, cache, locals, okNames, nRuns, nFaults, last, pure>>

\* a result file is deleted, at any time
FileDisappears(n) ==
    /\ nEnv < MaxFileOps
    /\ nEnv' = nEnv + 1
    /\ disk[n].exists
    /\ disk' = [disk EXCEPT ![n] = NoSuchFile]
    /\ since' = [since EXCEPT !.dirty = TRUE]
    /\ UNCHANGED <<dirExists, cache, locals, okNames, nRuns, nFaults, last, pure>>

NextConcurrent ==
    \/ \E p \in Workers : EnterNoFiles(p)
    \/ \E p \in Workers : EnterListing(p)
    \/ \E p \in Workers : ReadCacheFast(p)
    \/ \E p \in Workers : ReadCacheMerge(p)
    \/ \E p \in Workers : ReadCacheCold(p)
    \/ \E p \in Workers : \E n \in Names : FutureDone(p, n)
    \/ \E p \in Workers : ColdEmpty(p)
    \/ \E p \in Workers : Collect(p)
    \/ \E p \in Workers : SaveOpen(p)
    \/ \E p \in Workers : SaveDone(p)
    \/ \E n \in Names : FileAppears(n)
    \/ \E n \in Names : FileDisappears(n)

SpecConcurrent == InitConcurrent /\ [][NextConcurrent]_vars

(***************************************************************************)
(* load_single_file on its own: one call, for any name and any content.    *)
(***************************************************************************)
\* load_all_data is not running and the data directory is empty
NoLoad ==
    /\ dirExists = TRUE
    /\ disk = NoFiles
    /\ cache = NoFile
    /\ pc = [p \in Procs |-> "idle"]
    /\ files = [p \in Procs |-> {}]
    /\ seen = [p \in Procs |-> "unread"]
    /\ cached = [p \in Procs |-> NoDF]
    /\ pending = [p \in Procs |-> {}]
    /\ records = [p \in Procs |-> <<>>]
    /\ df = [p \in Procs |-> EmptyDF]
    /\ calls = [p \in Procs |-> {}]
    /\ okNames = {}
    /\ since = Nothing
    /\ nRuns = 0
    /\ nEnv = 0
    /\ nFaults = 0
    /\ last = NoRun

load == <<world, locals, okNames, counters, nRuns, last>>

\* names a file can have: two that decode, one that matches the pattern and
\* is no date, one the glob finds that has no timestamp, one it does not find
ParseNames == {NameA, NameB, NameBadDate, NameNoTs, NameOther}

\* values of the "success" key
SuccessValues == {Absent, JNull, JFalse, JTrue, JNum(0), JNum(1)}

\* JSON objects: every success value, with no result, a result that is no
\* container, and a result dict with each of the metrics
ObjectContents ==
    {File(TRUE, TRUE, TRUE, s, r, NoMetrics, JStr(1)) :
        s \in SuccessValues, r \in {"absent", "null", "dict"}}
    \cup {File(TRUE, TRUE, TRUE, s, "dict", m, JStr(1)) :
        s \in SuccessValues, m \in {MetricsV1, MetricsV2, MetricsStr}}

ParseContents == ObjectContents \cup AllContents

ParseInputs == [name : ParseNames, data : ParseContents]

InitParse ==
    /\ NoLoad
    /\ arg \in ParseInputs
    /\ ret = NoCall

\* lines 130-176: the call returns a record or None, or raises
CallLoadSingleFile ==
    /\ ret = NoCall
    /\ ret' = load_single_file(arg.name, arg.data)
    /\ UNCHANGED <<load, arg>>

NextParse == CallLoadSingleFile

SpecParse == InitParse /\ [][NextParse]_vars

(***************************************************************************)
(* parse_timestamp_from_filename on its own: one call, for any string.     *)
(***************************************************************************)
\* the string with its i-th character replaced, and with it removed
ReplaceAt(s, i, c) == [s EXCEPT ![i] = c]
RemoveAt(s, i) == SubSeq(s, 1, i - 1) \o SubSeq(s, i + 1, Len(s))

\* the strings the codec is called with: names that decode, the empty string,
\* a name with one character replaced (a letter for a digit, a separator for
\* another, a digit that makes the date or the time one that does not exist),
\* with one character missing (wrong digit counts, no Z), and with a segment
\* before or after the name (a second extension, a directory)
CodecInputs ==
    {NameA, NameB, NameBadDate, NameNoTs, NameOther, <<>>}
    \cup {ReplaceAt(NameA, i, c) : i \in 1..Len(NameA), c \in {"x", "-", "9"}}
    \cup {RemoveAt(NameA, i) : i \in 1..Len(NameA)}
    \cup {NameA \o Suffix, NameA \o <<"x">>, NameA \o <<".","b","a","k">>,
          <<"x">> \o NameA, <<"d","/">> \o NameA}

InitCodec ==
    /\ NoLoad
    /\ arg \in CodecInputs
    /\ ret = NoCall

\* lines 95-127: the call returns a datetime or None
CallParseTimestamp ==
    /\ ret = NoCall
    /\ ret' = parse_timestamp_from_filename(arg)
    /\ UNCHANGED <<load, arg>>

NextCodec == CallParseTimestamp

SpecCodec == InitCodec /\ [][NextCodec]_vars

(***************************************************************************)
(* aggregate_to_intervals on its own: one call, for any dataset of a few   *)
(* rows in any order and any interval width.                               *)
(***************************************************************************)
\* rows of the datasets aggregated
MaxRows == 3

\* 1970-01-01, from which Timestamp.floor counts the intervals
EpochOrdinal == Ordinal(1970, 1, 1)
MinutesPerDay == 24 * 60
MsPerMinute == 60 * 1000

\* df["timestamp"].dt.floor(f"{interval_minutes}min") of one timestamp
Floor(ts, interval_minutes) ==
    LET minutes == (ts.day - EpochOrdinal) * MinutesPerDay + (ts.ms \div MsPerMinute)
        start == (minutes \div interval_minutes) * interval_minutes
    IN [day |-> EpochOrdinal + (start \div MinutesPerDay),
        ms |-> (start % MinutesPerDay) * MsPerMinute]

RECURSIVE GCD(_, _)
GCD(a, b) == IF b = 0 THEN a ELSE GCD(b, a % b)

\* the float total / count, total being in millionths: held as the fraction
\* in lowest terms
Quotient(total, count) ==
    LET g == GCD(total, count)
    IN [t |-> "float", v |-> total \div g, over |-> count \div g]

\* "mean" of the cells of column c in the rows at the positions idx, taken in
\* the order of the rows: NaN cells are skipped, NaN when there is no other
RECURSIVE SumCells(_, _, _, _)
SumCells(rows, c, idx, n) ==
    IF n = 0 THEN [total |-> 0, count |-> 0]
    ELSE LET before == SumCells(rows, c, idx, n - 1)
         IN IF n \in idx /\ rows[n][c] # NaN
            THEN [total |-> before.total + rows[n][c].v, count |-> before.count + 1]
            ELSE before

MeanOf(rows, c, idx) ==
    LET sum == SumCells(rows, c, idx, Len(rows))
    IN IF sum.count = 0 THEN NaN ELSE Quotient(sum.total, sum.count)

\* the group keys of groupby("interval"), in ascending order
RECURSIVE Ascending(_)
Ascending(keys) ==
    IF keys = {} THEN <<>>
    ELSE LET first == CHOOSE k \in keys : \A other \in keys : TsLeq(k, other)
         IN <<first>> \o Ascending(keys \ {first})

\* what a call of aggregate_to_intervals does
Returned(d) == [kind |-> "returned", df |-> d, why |-> "ok"]
AggRaised(why) == [kind |-> "raise", df |-> EmptyDF, why |-> why]

\* lines 358-380.  With no metric column agg_dict is {} and
\* DataFrameGroupBy.agg({}) has nothing to concatenate: pandas raises
\* ValueError("No objects to concatenate").
aggregate_to_intervals(d, interval_minutes) ==
    IF IsEmpty(d) THEN Returned(d)
    ELSE
      LET interval == [i \in 1..Len(d.rows) |->
                          Floor(d.rows[i]["timestamp"], interval_minutes)]
          metric_cols == d.cols \cap MetricKeys
          keys == Ascending({interval[i] : i \in 1..Len(d.rows)})
          agg_df ==
              [cols |-> {"timestamp"} \cup metric_cols,
               rows |-> [k \in 1..Len(keys) |->
                           [c \in {"timestamp"} \cup metric_cols |->
                              IF c = "timestamp" THEN keys[k]
                              ELSE MeanOf(d.rows, c,
                                          {i \in 1..Len(d.rows) : interval[i] = keys[k]})]],
               index |-> RangeIndex(Len(keys))]
      IN IF metric_cols = {} THEN AggRaised("ValueError")
         ELSE Returned(SortValues(agg_df))

\* the records of the datasets: three instants, two of them in the same ten
\* minutes, with or without a download and a latency
AggInstants ==
    {parse_timestamp_from_filename(NameA),
     FromIsoFormat(2024, 1, 15, 10, 34, 30, 500),
     parse_timestamp_from_filename(NameB)}

AggMetrics ==
    {NoMetrics, MetricsV1, MetricsV2,
     [k \in {"latency"} |-> JNum(7)]}

AggRecords ==
    {[c \in {"timestamp", "sessionID"} \cup DOMAIN m |->
         CASE c = "timestamp" -> ts
           [] c = "sessionID" -> JStr(1)
           [] OTHER -> Convert(c, m[c])] : ts \in AggInstants, m \in AggMetrics}

\* interval_minutes
AggWidths == {7, 10, 60}

AggInputs ==
    [df : {DataFrameOf(recs) :
              recs \in UNION {[1..n -> AggRecords] : n \in 0..MaxRows}},
     interval_minutes : AggWidths]

InitAggregate ==
    /\ NoLoad
    /\ arg \in AggInputs
    /\ ret = NoCall

\* lines 349-380
CallAggregate ==
    /\ ret = NoCall
    /\ ret' = aggregate_to_intervals(arg.df, arg.interval_minutes)
    /\ UNCHANGED <<load, arg>>

NextAggregate == CallAggregate

SpecAggregate == InitAggregate /\ [][NextAggregate]_vars

(***************************************************************************)
(* Properties.                                                             *)
(***************************************************************************)
\* an invocation ends in this step
EndedStep ==
    \E p \in Procs : pc'[p] = "idle" /\ (pc[p] # "idle" \/ nRuns' # nRuns)

\* the rows are in non-decreasing order of timestamp
IsSorted(rows) ==
    \A i \in 1..(Len(rows) - 1) :
        TsLeq(rows[i]["timestamp"], rows[i + 1]["timestamp"])

\* the elements of a set, in some order
RECURSIVE SeqOf(_)
SeqOf(S) ==
    IF S = {} THEN <<>>
    ELSE LET x == CHOOSE y \in S : TRUE IN <<x>> \o SeqOf(S \ {x})

\* the outward records of the files B, as the data directory holds them
OutwardRecords(B) ==
    LET good == {n \in B : load_single_file(n, ContentOf(n)).kind = "record"}
        names == SeqOf(good)
    IN [i \in 1..Len(names) |->
           LET rec == load_single_file(names[i], ContentOf(names[i])).rec
           IN [c \in DOMAIN rec \ {"source_file"} |-> rec[c]]]

\* sort_by_timestamp(dataset united with the records of the files B)
MergeOf(dataset, B) ==
    Dataset(SortValues(Concat(
        [cols |-> dataset.cols, rows |-> dataset.rows,
         index |-> RangeIndex(Len(dataset.rows))],
        DataFrameOf(OutwardRecords(B)))))

\* the row is one of the rows, which may have more columns
RowIn(row, rows) ==
    \E j \in 1..Len(rows) :
        /\ DOMAIN row \subseteq DOMAIN rows[j]
        /\ \A c \in DOMAIN row : rows[j][c] = row[c]

WithoutSourceFile(row) == [c \in DOMAIN row \ {"source_file"} |-> row[c]]

\* C1: whatever is wrong with a file, load_single_file returns a skip for it
\* without raising, and no error of a single file reaches the caller of
\* load_all_data.
C1_PerFileFailureIsolation ==
    /\ \A p \in Procs : \A n \in pending[p] :
          load_single_file(n, ContentOf(n)).kind # "raise"
    /\ last.kind = "raised" => last.path \notin {"AttributeError"}

\* C2: when load_all_data has returned and written the cache, and runs again
\* with nothing changed in between, the second run returns the same dataset
\* and calls load_single_file for no file.
C2_RoundTripIdempotence ==
    [][(EndedStep /\ last.kind = "returned" /\ last.saved
          /\ last'.before = Nothing)
        => (last'.kind = "returned" /\ last'.out = last.out /\ last'.calls = {})]_vars

\* C3: when run 1 has returned and only new files B appear before run 2, run 2
\* returns the dataset of run 1 united with the records parsed from B, sorted
\* by timestamp.
C3_MonotonicMerge ==
    [][(EndedStep /\ last.kind = "returned" /\ ~last'.before.dirty)
        => (last'.kind = "returned"
              /\ last'.out = MergeOf(last.out, last'.before.added))]_vars

\* C4: every dataset load_all_data returns is in non-decreasing order of
\* timestamp, whatever the order the files arrived in and the futures
\* completed in.
C4_OrderingInvariant ==
    last.kind = "returned" => IsSorted(last.out.rows)

\* a merge where the new file is older than the cached one: the cached row
\* comes second in the dataset returned
C4_Witness ==
    /\ last.kind = "returned" /\ last.path = "saved"
    /\ Len(last.cachedRows) = 1 /\ Len(last.out.rows) = 2
    /\ last.out.rows[2]["timestamp"] = last.cachedRows[1]["timestamp"]

\* C5: when the cache file is damaged (garbage, a partial write, a readable
\* file without the expected columns), the next load_all_data raises nothing,
\* parses every matching file and returns what a cold start returns.
C5_CacheCorruptionResilience ==
    (last.seen \in {"garbage", "partial", "foreign"} /\ since = Nothing)
      => /\ last.kind = "returned"
         /\ last.calls = last.files
         /\ last.out = MergeOf(NoDataset, Glob)

\* C6: the cache path never holds a partially written file once the writer is
\* gone, and _load_cache never finds one.
C6_AtomicCacheWrite ==
    /\ (\A p \in Procs : pc[p] # "writing") => cache.kind # "partial"
    /\ \A p \in Procs : seen[p] # "partial"
    /\ last.seen # "partial"

\* C7: when _save_cache fails, load_all_data still returns the dataset it
\* would have returned, and the next invocation, with nothing changed in
\* between, calls _save_cache again.
C7_CacheWriteFailureNonFatal ==
    [][/\ (EndedStep /\ last'.wrote /\ last'.kind # "crashed")
           => /\ last'.kind = "returned"
              /\ \E p \in Procs : last'.out = Dataset(Outward(df[p]))
       /\ (EndedStep /\ last.kind = "returned" /\ last.wrote /\ ~last.saved
             /\ last'.before = Nothing)
           => last'.wrote]_vars

\* the names of a readable cache file that has the source_file column
CachedNames ==
    IF Kind(cache) = "parquet" THEN SourceFiles(ReadParquet(cache)) ELSE {}

\* C8: load_single_file is never called for a name the readable cache holds,
\* whatever became of the file's content; the rows read from the cache are in
\* the snapshot written and in the dataset returned, as they were.
C8_MonotonicCacheGrowth ==
    [][/\ \A p \in Procs :
             calls'[p] # calls[p] => calls'[p] \cap CachedNames = {}
       /\ \A p \in Procs :
             (pc[p] = "writing" /\ cache'.kind = "parquet")
               => \A i \in 1..Len(cached[p].df.rows) :
                     RowIn(cached[p].df.rows[i], cache'.rows)
       /\ (EndedStep /\ last'.kind = "returned")
             => \A i \in 1..Len(last'.cachedRows) :
                   RowIn(WithoutSourceFile(last'.cachedRows[i]), last'.out.rows)]_vars

\* a file was overwritten with another measurement after it was cached, and
\* the invocation after that returned the row of the first measurement
C8_Witness ==
    /\ last.kind = "returned" /\ since = Nothing
    /\ \E i \in 1..Len(last.cachedRows) :
          LET row == last.cachedRows[i]
              n == row["source_file"]
              now == load_single_file(n, ContentOf(n))
          IN /\ n \notin last.calls
             /\ now.kind = "record"
             /\ now.rec["download"] # row["download"]
             /\ RowIn(WithoutSourceFile(row), last.out.rows)

\* the DataFrame is a snapshot as C9 wants it, given the names it must hold
WellFormedSnapshot(d) ==
    /\ "timestamp" \in d.cols /\ "source_file" \in d.cols
    /\ \A i \in 1..Len(d.rows) :
          /\ d.rows[i]["timestamp"] # None
          /\ d.rows[i]["timestamp"] =
                parse_timestamp_from_filename(d.rows[i]["source_file"])
    /\ Cardinality(SourceFiles(d)) = Len(d.rows)

\* C9: in every snapshot load_all_data writes, every row has a timestamp, no
\* two rows have the same source_file, every source_file is a name
\* load_single_file returned a record for, and the names are those of the
\* cache that was read and of the files of this invocation that
\* load_single_file returns a record for.
C9_SourceFileCorrespondence ==
    /\ Kind(cache) = "parquet"
         => /\ WellFormedSnapshot(ReadParquet(cache))
            /\ CachedNames \subseteq okNames
    /\ \A p \in Procs : pc[p] \in {"save", "writing"}
         => /\ WellFormedSnapshot(df[p])
            /\ SourceFiles(df[p]) =
                  SourceFiles(cached[p].df)
                    \cup {n \in calls[p] :
                            load_single_file(n, ContentOf(n)).kind = "record"}

\* a snapshot was written by an invocation that parsed a file into a record
\* and skipped another
C9_Witness ==
    /\ last.kind = "returned" /\ last.saved /\ Kind(cache) = "parquet"
    /\ last.calls \cap CachedNames # {}
    /\ last.calls \ CachedNames # {}

\* C10: no dataset load_all_data returns has a source_file column, and every
\* row of every DataFrame given to _save_cache has its source_file.
C10_SourceFileInternalOnly ==
    /\ last.kind = "returned" => "source_file" \notin last.out.cols
    /\ \A p \in Procs : pc[p] \in {"save", "writing"}
         => /\ "source_file" \in df[p].cols
            /\ \A i \in 1..Len(df[p].rows) : df[p].rows[i]["source_file"] \in Names

\* the fast path has returned rows, and a later invocation is writing a
\* snapshot of two rows
C10_Witness ==
    /\ last.kind = "returned" /\ last.path = "fast" /\ Len(last.out.rows) = 1
    /\ \E p \in Procs : pc[p] = "writing" /\ Len(df[p].rows) = 2

\* C11: when the data directory does not exist, or holds no matching file, or
\* there is no usable cache and load_single_file returns None for every file
\* found, load_all_data returns the empty dataset, does not call _save_cache,
\* and the cache file is after the invocation what it was before it.
C11_EmptyOutcomesLeaveCache ==
    [][/\ (nRuns' # nRuns /\ (~dirExists \/ Glob = {}))
           => /\ last'.kind = "returned" /\ last'.out = NoDataset
              /\ ~last'.wrote /\ cache' = cache
       /\ \A p \in Procs :
             (pc[p] \in {"load_cache", "parse"}) => cache' = cache
       /\ \A p \in Procs :
             (/\ pc[p] = "parse" /\ pending[p] = {} /\ pc'[p] # "parse"
              /\ ~cached[p].some /\ records[p] = <<>>)
               => /\ last'.kind = "returned" /\ last'.out = NoDataset
                  /\ ~last'.wrote /\ cache' = cache]_vars

\* a cold start over a damaged cache file skipped every file found, and the
\* damaged file is still there
C11_Witness ==
    /\ last.kind = "returned" /\ last.path = "coldempty"
    /\ last.calls # {} /\ last.seen = "garbage"
    /\ cache = Garbage

\* the file says the measurement succeeded: it has a "success" key whose value
\* is true (or a number other than 0)
SaysSuccess(data) ==
    /\ data.readable /\ data.wellFormed /\ data.isObject
    /\ data.success \in {JTrue, JNum(1)}

HasResult(data) ==
    /\ data.readable /\ data.wellFormed /\ data.isObject
    /\ data.result # "absent"

\* C12: load_single_file returns no record for a file whose success flag is
\* false or absent, whatever its result section; none for a file with success
\* true and no result section; none for a name that does not decode to a
\* timestamp, whatever the content; and a record it returns is one record of
\* a file that passes the three tests, with the file's name and the timestamp
\* of the name.
C12_SkipClassification ==
    ret # NoCall =>
      /\ ~SaysSuccess(arg.data) => ret.kind # "record"
      /\ ~HasResult(arg.data) => ret.kind # "record"
      /\ parse_timestamp_from_filename(arg.name) = None => ret.kind # "record"
      /\ ret.kind = "record" =>
            /\ SaysSuccess(arg.data) /\ HasResult(arg.data)
            /\ ret.rec["source_file"] = arg.name
            /\ ret.rec["timestamp"] = parse_timestamp_from_filename(arg.name)
            /\ ret.rec["timestamp"] # None

\* success false and a complete result section under a name that decodes: no
\* record
C12_Witness ==
    /\ ret # NoCall /\ ret.kind = "none"
    /\ arg.name = NameA
    /\ arg.data = FailedRun

\* success true and a complete result section under a name that decodes: the
\* record
C12_WitnessRecord ==
    /\ ret # NoCall /\ ret.kind = "record"
    /\ arg.name = NameA
    /\ arg.data = GoodV1

\* the whole string is speedtest-{date}T{HH}-{MM}-{SS}-{mmm}Z.json
ExactName(name) ==
    /\ Len(name) = Len(TimestampPattern)
    /\ \A i \in 1..Len(name) :
          \/ TimestampPattern[i] = D /\ name[i] \in DOMAIN DigitVal
          \/ TimestampPattern[i] # D /\ name[i] = TimestampPattern[i]

\* C13: parse_timestamp_from_filename returns a timestamp only for a string
\* that is, as a whole, speedtest-{date}T{HH}-{MM}-{SS}-{mmm}Z.json; for every
\* other string, one with a segment after the name included, it returns no
\* match.
C13_ExactPatternOnly ==
    (ret # NoCall /\ ret # None) => ExactName(arg)

\* the distinct values of floor(timestamp, interval) among the rows
Buckets(d, w) == {Floor(d.rows[i]["timestamp"], w) : i \in 1..Len(d.rows)}

\* the sum of the cells of column c at the positions idx
RECURSIVE SumOver(_, _, _)
SumOver(rows, c, idx) ==
    IF idx = {} THEN 0
    ELSE LET i == CHOOSE j \in idx : TRUE
         IN rows[i][c].v + SumOver(rows, c, idx \ {i})

\* the row is the aggregate of its bucket: each metric is the arithmetic mean
\* of the values the bucket's records have for it, and NaN when they have none
RowOfBucket(row, d, w) ==
    \A c \in d.cols \cap MetricKeys :
       LET idx == {i \in 1..Len(d.rows) :
                     /\ Floor(d.rows[i]["timestamp"], w) = row["timestamp"]
                     /\ d.rows[i][c] # NaN}
       IN /\ c \in DOMAIN row
          /\ IF idx = {} THEN row[c] = NaN
             ELSE /\ row[c] # NaN
                  /\ row[c].v * Cardinality(idx) = SumOver(d.rows, c, idx) * row[c].over

\* the rows of d in the order f
Permuted(d, f) ==
    [cols |-> d.cols,
     rows |-> [i \in 1..Len(d.rows) |-> d.rows[f[i]]],
     index |-> d.index]

\* what a call returned, without the index labels
Outcome(r) == [kind |-> r.kind, why |-> r.why, data |-> Dataset(r.df)]

\* the call returned what C14 says for the dataset and the interval width
AggregatesAsSaid(r, d, w) ==
    /\ r.kind = "returned"
    /\ IsEmpty(d) => IsEmpty(r.df)
    /\ ~IsEmpty(d) =>
          /\ Len(r.df.rows) = Cardinality(Buckets(d, w))
          /\ {r.df.rows[i]["timestamp"] : i \in 1..Len(r.df.rows)} = Buckets(d, w)
          /\ \A i \in 1..(Len(r.df.rows) - 1) :
                /\ TsLeq(r.df.rows[i]["timestamp"], r.df.rows[i + 1]["timestamp"])
                /\ r.df.rows[i]["timestamp"] # r.df.rows[i + 1]["timestamp"]
          /\ \A i \in 1..Len(r.df.rows) : RowOfBucket(r.df.rows[i], d, w)
    /\ \A f \in Permutations(1..Len(d.rows)) :
          Outcome(aggregate_to_intervals(Permuted(d, f), w)) = Outcome(r)

\* C14: for every dataset and interval width aggregate_to_intervals returns
\* one row per distinct floor(timestamp, interval), in ascending order, each
\* metric the arithmetic mean of the bucket's values for it and absent when
\* the bucket has none; an empty dataset gives an empty one; and the rows in
\* any other order give the same result.
C14_AggregationMeans ==
    ret # NoCall => AggregatesAsSaid(ret, arg.df, arg.interval_minutes)

\* the invocation of p is about to write a snapshot that lacks a file the
\* snapshot at the cache path has
LosesRecords(p) ==
    /\ pc[p] = "save"
    /\ Kind(cache) = "parquet"
    /\ ~(CachedNames \subseteq SourceFiles(df[p]))

\* C15: when invocations overlap, the write of _save_cache replaces a
\* snapshot by one that lacks records of it only when the cache path was
\* written by the other invocation after this one had read it; an invocation
\* that finds at its write the cache it has read loses nothing.
C15_LossOnlyWhenInterleaved ==
    [][\A p \in Workers :
          (LosesRecords(p) /\ pc'[p] = "writing")
            => cached[p] # _load_cache(cache)]_vars

\* both invocations have ended and written their snapshots; the one that had
\* listed only the first file wrote last, and the cache no longer names the
\* second file, which the other invocation had parsed and written
C15_Witness ==
    /\ \A p \in Workers : pc[p] = "idle"
    /\ nRuns = 2 /\ nEnv = 1
    /\ last.kind = "returned" /\ last.saved /\ last.files = {NameA}
    /\ disk[NameB].exists /\ NameB \in okNames
    /\ Kind(cache) = "parquet" /\ CachedNames = {NameA}

\* with the invocations serialized no invocation is ever about to write a
\* snapshot that lacks a file of the snapshot at the cache path
C15_SerializedKeepsRecords ==
    \A p \in Procs : ~LosesRecords(p)

\* C16: an invocation that finds a matching file and a readable cache returns
\* every record of that cache, whether or not the record's file is still in
\* the data directory; an invocation that finds no directory or no matching
\* file returns the empty dataset.
C16_RecordsOutliveFiles ==
    /\ (last.seen = "parquet" /\ last.kind # "crashed")
         => /\ last.kind = "returned"
            /\ \A i \in 1..Len(last.cachedRows) :
                  RowIn(WithoutSourceFile(last.cachedRows[i]), last.out.rows)
    /\ last.path \in {"nodir", "nofiles"} => last.out = NoDataset

\* an invocation returned the record of a file that is no longer in the data
\* directory
C16_DeletedStillReturned ==
    /\ last.kind = "returned" /\ last.seen = "parquet" /\ since = Nothing
    /\ \E i \in 1..Len(last.cachedRows) :
          /\ ~disk[last.cachedRows[i]["source_file"]].exists
          /\ RowIn(WithoutSourceFile(last.cachedRows[i]), last.out.rows)

====
